---- MODULE Spec2Model ----
(***************************************************************************)
(* Model of src/download.py: the four worker processes started by main     *)
(* (load_ids, activate, is_active, download) and the three queues that     *)
(* connect them.  One action per worker process; an action performs the     *)
(* next step of that process's loop, a step ending at each queue operation. *)
(* main only waits for the workers: where it stands follows from which of   *)
(* them have exited (main_pc).                                              *)
(***************************************************************************)
EXTENDS Integers, Sequences, FiniteSets, TLC

(* ------------------------------ bounds -------------------------------- *)

\* number of configured regions (sections of config.ini besides DEFAULT)
NumSections == 1
\* number of features the catalog holds over all regions
MaxItems == 1
\* features per catalog page
PageSize == 1
\* the clock is seen to advance at most this many times, by PollDelay each
MaxTicks == 1
\* is_active starts at most this many re-checks of a real task
MaxPolls == 2
\* the catalogs searched by load_ids on its own: regions, features over
\* all regions, features per page
MaxRegions == 2
MaxFeatures == 3
MaxPageSize == 2

(* --------------------------- program constants ------------------------ *)

\* Python's None
None == "None"

\* the 180 of "timestamp < time.time() + 180"
PollDelay == 180

\* the two asset kinds of the for loop in activate
AssetTypes == <<"analytic", "analytic_xml">>

\* the termination marker of the Item Queue
ItemMarker == <<None, None>>

\* the termination marker of the Pending and Ready Queues
Marker == <<None, None, None, None>>

(* ------------------------------ inputs -------------------------------- *)

SectionNames == <<"s1", "s2", "s3">>
ItemNames == <<"i1", "i2", "i3", "i4">>

RECURSIVE Sum(_, _)
Sum(f, n) == IF n = 0 THEN 0 ELSE f[n] + Sum(f, n - 1)

\* the features of a region holding cnt features, the first numbered
\* first + 1, cut into pages of `size`; the last page has no next link
RECURSIVE Pages(_, _, _)
Pages(first, cnt, size) ==
    IF cnt <= size
    THEN << [i \in 1..cnt |-> ItemNames[first + i]] >>
    ELSE << [i \in 1..size |-> ItemNames[first + i]] >>
         \o Pages(first + size, cnt - size, size)

\* a catalog: for each region, in the order of the sections, its pages
Catalogs ==
    { [s \in 1..NumSections |-> Pages(Sum(cnt, s - 1), cnt[s], PageSize)] :
        cnt \in { c \in [1..NumSections -> 0..MaxItems] :
                    Sum(c, NumSections) <= MaxItems } }

\* the catalogs of up to MaxRegions regions, MaxFeatures features and
\* pages of up to MaxPageSize features
SearchCatalogs ==
    UNION { { [s \in 1..n |-> Pages(Sum(cnt, s - 1), cnt[s], size)] :
                cnt \in { c \in [1..n -> 0..MaxFeatures] :
                            Sum(c, n) <= MaxFeatures } } :
            n \in 1..MaxRegions, size \in 1..MaxPageSize }

(* ------------------------------ state --------------------------------- *)

VARIABLES
    catalog,                \* what the catalog search endpoint answers
    network,                \* "nominal": no fault; "unreliable": the faults
                            \* the code provides for; "outage": those, and
                            \* connections that fail where it does not
    now,                    \* the last value time.time() returned
    queue_item_ids,         \* Item Queue
    queue_inactive_assets,  \* Pending Queue
    queue_active_assets,    \* Ready Queue
    p_load_ids,             \* the process running load_ids
    p_activate,             \* the process running activate
    p_is_active,            \* the process running is_active
    p_download,             \* the process running download
    activation_requests,    \* activation links requested so far, in order
    files,                  \* paths that exist on disk
    complete                \* paths whose file was written to the end

vars == << catalog, network, now, queue_item_ids, queue_inactive_assets,
           queue_active_assets, p_load_ids, p_activate, p_is_active,
           p_download, activation_requests, files, complete >>

(* ------------------------------ helpers ------------------------------- *)

Range(s) == { s[i] : i \in 1..Len(s) }

\* "for section in CONFIG", without DEFAULT: the configured regions are
\* those the catalog is asked about
Sections == SubSeq(SectionNames, 1, Len(catalog))

\* mp.Queue.put
Put(q, x) == Append(q, x)

\* mp.Queue.qsize()
Qsize(q) == Len(q)

\* what a call of time.time() can return: the clock never runs backwards
time_time == { now + i * PollDelay : i \in 0..(MaxTicks - now \div PollDelay) }

\* a process that has left its function, by return or by an exception
Exited(p) == p.pc \in {"returned", "crashed"}

\* the 'location' and the '_links'/'activate' an asset's status carries
Location(item_id, asset_type) == "location/" \o item_id \o "/" \o asset_type
ActivateLink(item_id, asset_type) ==
    "activate/" \o item_id \o "/" \o asset_type

\* what check_active_asset can return for an asset: (None, None) on a read
\* timeout, an unparsable or an empty body, (True, location) when the
\* status is "active", (False, activation link) otherwise.  On a nominal
\* network an asset is inactive until its activation was requested, and
\* active from then on.
check_active_asset(item_id, asset_type) ==
    LET indeterminate == << "None", None >>
        active == << "True", Location(item_id, asset_type) >>
        inactive == << "False", ActivateLink(item_id, asset_type) >>
    IN  IF network = "nominal"
        THEN IF ActivateLink(item_id, asset_type)
                    \in Range(activation_requests)
             THEN {active}
             ELSE {inactive}
        ELSE {indeterminate, inactive, active}

\* CONFIG[section]['download']; only configured sections have one
HasSection(section) == section \in Range(Sections)
DownloadDir(section) == "download_" \o section

\* Fname with the two extensions exchanged
Fname_swapped(item_id, asset_type) ==
    IF asset_type = "analytic" THEN item_id \o ".xml" ELSE item_id \o ".tif"

\* "{}.tif".format(item_id) for the analytic asset, "{}.xml" otherwise
Fname(item_id, asset_type) ==
    IF asset_type = "analytic" THEN item_id \o ".tif" ELSE item_id \o ".xml"

\* os.path.join(CONFIG[section]['download'], fname)
Path(section, fname) == DownloadDir(section) \o "/" \o fname

\* how download_file can end: "ok" wrote the whole file; "before_open"
\* raised (a read timeout of requests.get, an HTTP error status, a failing
\* open) with no file created; "after_open" raised after open(.., 'wb')
\* created the file (a failing read of a chunk or a failing write)
download_file_outcomes ==
    IF network = "nominal" THEN {"ok"}
    ELSE {"ok", "before_open", "after_open"}

\* how the requests.get of the activation link in activate can end: it
\* returns a response, which activate ignores whatever its status, or it
\* raises (no connection, a reset), and activate has no try around it
activation_request_outcomes ==
    IF network = "outage" THEN {"returned", "raised"} ELSE {"returned"}

\* what the catalog requests of search can do
search_outcomes ==
    IF network = "nominal" THEN {"ok"} ELSE {"ok", "error"}

(* ------------------------------ Init ---------------------------------- *)

\* the local variables of each process before its first step; a process
\* takes them again when its loop body ends, where the old values are dead
IdleLoad == [pc |-> "search", sec |-> 1, page |-> 1, idx |-> 1]
IdleActivate ==
    [pc |-> "get", item_id |-> None, section |-> None, k |-> 1,
     active |-> "None", link |-> None]
IdleIsActive ==
    [pc |-> "get", task |-> Marker, active |-> "None", polls |-> 0]
IdleDownload == [pc |-> "get", task |-> Marker]

InitRest ==
    /\ now = 0
    /\ queue_item_ids = << >>
    /\ queue_inactive_assets = << >>
    /\ queue_active_assets = << >>
    /\ p_load_ids = IdleLoad
    /\ p_activate = IdleActivate
    /\ p_is_active = IdleIsActive
    /\ p_download = IdleDownload
    /\ activation_requests = << >>
    /\ files = {}
    /\ complete = {}

Init ==
    /\ catalog \in Catalogs
    /\ network = "unreliable"
    /\ InitRest

(* ------------------------------ load_ids ------------------------------ *)

\* AfterPage that puts the marker as soon as a region is finished
AfterPage_one_region(sec, page) ==
    IF page < Len(catalog[sec])
    THEN [pc |-> "search", sec |-> sec, page |-> page + 1, idx |-> 1]
    ELSE [pc |-> "marker", sec |-> 1, page |-> 1, idx |-> 1]

\* AfterPage that follows no next link
AfterPage_first_page(sec, page) ==
    IF sec < Len(catalog)
    THEN [pc |-> "search", sec |-> sec + 1, page |-> 1, idx |-> 1]
    ELSE [pc |-> "marker", sec |-> 1, page |-> 1, idx |-> 1]

\* where load_ids stands once page `page` of region `sec` is exhausted:
\* search follows the next link when there is one, else load_ids goes on
\* to the next region, and after the last region to the marker
AfterPage(sec, page) ==
    IF page < Len(catalog[sec])
    THEN [pc |-> "search", sec |-> sec, page |-> page + 1, idx |-> 1]
    ELSE IF sec < Len(catalog)
         THEN [pc |-> "search", sec |-> sec + 1, page |-> 1, idx |-> 1]
         ELSE [pc |-> "marker", sec |-> 1, page |-> 1, idx |-> 1]

load_ids ==
    /\ ~Exited(p_load_ids)
    /\ LET p == p_load_ids
           features == catalog[p.sec][p.page]
       IN  CASE p.pc = "search" ->
                  \* the request of search and the parse of its answer
                  \E outcome \in search_outcomes :
                     /\ p_load_ids' =
                          IF outcome = "error"
                          THEN [IdleLoad EXCEPT !.pc = "crashed"]
                          ELSE IF Len(features) = 0
                               THEN AfterPage(p.sec, p.page)
                               ELSE [p EXCEPT !.pc = "put", !.idx = 1]
                     /\ UNCHANGED queue_item_ids
            [] p.pc = "put" ->
                  \* queue_item_ids.put((feature['id'], section))
                  /\ queue_item_ids' =
                       Put(queue_item_ids,
                           << features[p.idx], Sections[p.sec] >>)
                  /\ p_load_ids' =
                       IF p.idx < Len(features)
                       THEN [p EXCEPT !.idx = p.idx + 1]
                       ELSE AfterPage(p.sec, p.page)
            [] p.pc = "marker" ->
                  \* queue_item_ids.put((None, None)); return
                  /\ queue_item_ids' = Put(queue_item_ids, ItemMarker)
                  /\ p_load_ids' = [IdleLoad EXCEPT !.pc = "returned"]
    /\ UNCHANGED << catalog, network, now, queue_inactive_assets,
                    queue_active_assets, p_activate, p_is_active,
                    p_download, activation_requests, files, complete >>

(* ------------------------------ activate ------------------------------ *)

\* ActivateRoute with the two queues of the inactive branch exchanged
ActivateRoute_swapped(item_id, section, asset_type, active, link, t) ==
    CASE active = "None" ->
           [pending |-> queue_inactive_assets,
            ready |-> queue_active_assets,
            requests |-> activation_requests]
      [] active = "False" ->
           [pending |-> queue_inactive_assets,
            ready |-> Put(queue_active_assets,
                          << item_id, section, asset_type, t >>),
            requests |-> Append(activation_requests, link)]
      [] active = "True" ->
           [pending |-> queue_inactive_assets,
            ready |-> Put(queue_active_assets,
                          << item_id, section, asset_type, link >>),
            requests |-> activation_requests]

\* the Pending and Ready Queues and the requested activations after the
\* body of the for loop of activate, past its status check: `active` and
\* `link` are what check_active_asset returned, t what time.time() returns
ActivateRoute(item_id, section, asset_type, active, link, t) ==
    CASE active = "None" ->
           [pending |-> queue_inactive_assets,
            ready |-> queue_active_assets,
            requests |-> activation_requests]
      [] active = "False" ->
           [pending |-> Put(queue_inactive_assets,
                            << item_id, section, asset_type, t >>),
            ready |-> queue_active_assets,
            requests |-> Append(activation_requests, link)]
      [] active = "True" ->
           [pending |-> queue_inactive_assets,
            ready |-> Put(queue_active_assets,
                          << item_id, section, asset_type, link >>),
            requests |-> activation_requests]

\* IsItemMarker that takes nothing for the marker
IsItemMarker_never(item_id, section) == FALSE

\* IsItemMarker that takes every Item Task for the marker
IsItemMarker_always(item_id, section) == TRUE

\* "if item_id is None and section is None"
IsItemMarker(item_id, section) == item_id = None /\ section = None

activate ==
    /\ ~Exited(p_activate)
    /\ LET p == p_activate
       IN  CASE p.pc = "get" ->
                  \* item_id, section = queue_item_ids.get(False)
                  /\ Len(queue_item_ids) > 0
                  /\ LET head == Head(queue_item_ids)
                     IN  p_activate' =
                           [p EXCEPT !.pc = IF IsItemMarker(head[1], head[2])
                                            THEN "forward" ELSE "check",
                                     !.item_id = head[1],
                                     !.section = head[2],
                                     !.k = 1]
                  /\ queue_item_ids' = Tail(queue_item_ids)
                  /\ UNCHANGED << now, queue_inactive_assets,
                                  queue_active_assets, activation_requests >>
            [] p.pc = "forward" ->
                  \* queue_inactive_assets.put((None, None, None, None))
                  /\ queue_inactive_assets' =
                       Put(queue_inactive_assets, Marker)
                  /\ p_activate' = [IdleActivate EXCEPT !.pc = "returned"]
                  /\ UNCHANGED << now, queue_item_ids, queue_active_assets,
                                  activation_requests >>
            [] p.pc = "check" ->
                  \* active, link = check_active_asset(item_id, asset_type)
                  \E result \in check_active_asset(p.item_id,
                                                   AssetTypes[p.k]) :
                     /\ p_activate' = [p EXCEPT !.pc = "route",
                                                !.active = result[1],
                                                !.link = result[2]]
                     /\ UNCHANGED << now, queue_item_ids,
                                     queue_inactive_assets,
                                     queue_active_assets,
                                     activation_requests >>
            [] p.pc = "route" ->
                  \E outcome \in IF p.active = "False"
                                  THEN activation_request_outcomes
                                  ELSE {"returned"} :
                  IF outcome = "raised"
                  THEN \* the exception of requests.get ends the process
                       /\ activation_requests' =
                            Append(activation_requests, p.link)
                       /\ p_activate' = [IdleActivate EXCEPT !.pc = "crashed"]
                       /\ UNCHANGED << now, queue_item_ids,
                                       queue_inactive_assets,
                                       queue_active_assets >>
                  ELSE
                  \E t \in IF p.active = "False" THEN time_time ELSE {now} :
                  LET r == ActivateRoute(p.item_id, p.section,
                                         AssetTypes[p.k], p.active, p.link,
                                         t)
                  IN  /\ now' = t
                      /\ queue_inactive_assets' = r.pending
                      /\ queue_active_assets' = r.ready
                      /\ activation_requests' = r.requests
                      /\ p_activate' =
                           IF p.k < Len(AssetTypes)
                           THEN [p EXCEPT !.pc = "check", !.k = p.k + 1,
                                          !.active = "None", !.link = None]
                           ELSE IdleActivate
                      /\ UNCHANGED queue_item_ids
    /\ UNCHANGED << catalog, network, p_load_ids, p_is_active,
                    p_download, files, complete >>

(* ------------------------------ is_active ----------------------------- *)

\* "if timestamp < time.time() + 180"
RecheckDue(timestamp, t) == timestamp < t + PollDelay

\* PendingDrained without the look at the queue
PendingDrained_always(q) == TRUE

\* "if queue_inactive_assets.qsize() == 0", after the marker was taken
PendingDrained(q) == Qsize(q) = 0

\* "if active:" on the None, False or True of check_active_asset
Truthy(active) == active = "True"

\* PutBack with the put left out
PutBack_dropped(q, task) == q

\* queue_inactive_assets.put((item_id, section, asset_type, timestamp)) of
\* the task is_active took: the call is made at two places of the loop
PutBack(q, task) == Put(q, task)

is_active ==
    /\ ~Exited(p_is_active)
    /\ LET p == p_is_active
       IN  CASE p.pc = "get" ->
                  \* ... = queue_inactive_assets.get(False)
                  /\ Len(queue_inactive_assets) > 0
                  /\ LET head == Head(queue_inactive_assets)
                     IN  /\ head[1] # None => p.polls < MaxPolls
                         /\ p_is_active' =
                              IF head[1] = None
                              THEN [p EXCEPT !.task = head, !.pc = "marker"]
                              ELSE [p EXCEPT !.task = head, !.pc = "early",
                                             !.polls = p.polls + 1]
                  /\ queue_inactive_assets' = Tail(queue_inactive_assets)
                  /\ UNCHANGED << now, queue_active_assets >>
            [] p.pc = "marker" ->
                  IF PendingDrained(queue_inactive_assets)
                  THEN /\ queue_active_assets' =
                            Put(queue_active_assets, Marker)
                       /\ p_is_active' =
                            [IdleIsActive EXCEPT !.pc = "returned"]
                       /\ UNCHANGED << now, queue_inactive_assets >>
                  ELSE /\ queue_inactive_assets' =
                            Put(queue_inactive_assets, Marker)
                       /\ p_is_active' = [p EXCEPT !.task = Marker,
                                                   !.pc = "get"]
                       /\ UNCHANGED << now, queue_active_assets >>
            [] p.pc = "early" ->
                  \* the put under "if timestamp < time.time() + 180",
                  \* after which the loop body goes on
                  \E t \in time_time :
                     /\ now' = t
                     /\ queue_inactive_assets' =
                          IF RecheckDue(p.task[4], t)
                          THEN PutBack(queue_inactive_assets, p.task)
                          ELSE queue_inactive_assets
                     /\ p_is_active' = [p EXCEPT !.pc = "check"]
                     /\ UNCHANGED queue_active_assets
            [] p.pc = "check" ->
                  \* the status check, and the put under "if active:"
                  \E result \in check_active_asset(p.task[1], p.task[3]) :
                     /\ queue_active_assets' =
                          IF Truthy(result[1])
                          THEN Put(queue_active_assets,
                                   << p.task[1], p.task[2], p.task[3],
                                      result[2] >>)
                          ELSE queue_active_assets
                     /\ p_is_active' = [p EXCEPT !.pc = "requeue",
                                                 !.active = result[1]]
                     /\ UNCHANGED << now, queue_inactive_assets >>
            [] p.pc = "requeue" ->
                  \* the last line of the loop body
                  /\ queue_inactive_assets' =
                       PutBack(queue_inactive_assets, p.task)
                  /\ p_is_active' = [p EXCEPT !.task = Marker,
                                              !.active = "None",
                                              !.pc = "get"]
                  /\ UNCHANGED << now, queue_active_assets >>
    /\ UNCHANGED << catalog, network, queue_item_ids, p_load_ids,
                    p_activate, p_download, activation_requests,
                    files, complete >>

(* ------------------------------ download ------------------------------ *)

\* "queue_active_assets.qsize == 0" compares the bound method itself, not
\* its result, with 0: it is False for every queue
QsizeAttrIsZero(q) == FALSE

\* Exists with the look at the disk left out
Exists_never(path) == FALSE

\* os.path.exists
Exists(path) == path \in files

download ==
    /\ ~Exited(p_download)
    /\ LET p == p_download
           item_id == p.task[1]
           section == p.task[2]
           asset_type == p.task[3]
           path == Path(section, Fname(item_id, asset_type))
       IN  CASE p.pc = "get" ->
                  \* ... = queue_active_assets.get(False)
                  /\ Len(queue_active_assets) > 0
                  /\ p_download' =
                       [p EXCEPT !.task = Head(queue_active_assets),
                                 !.pc = IF Head(queue_active_assets)[1] = None
                                        THEN "marker" ELSE "process"]
                  /\ queue_active_assets' = Tail(queue_active_assets)
                  /\ UNCHANGED << files, complete >>
            [] p.pc = "marker" ->
                  \* "if item_id is None": return, or put the marker back
                  \* and go on with the rest of the loop body
                  IF QsizeAttrIsZero(queue_active_assets)
                  THEN /\ p_download' =
                            [IdleDownload EXCEPT !.pc = "returned"]
                       /\ UNCHANGED << queue_active_assets, files,
                                       complete >>
                  ELSE /\ queue_active_assets' =
                            Put(queue_active_assets, Marker)
                       /\ p_download' = [p EXCEPT !.pc = "process"]
                       /\ UNCHANGED << files, complete >>
            [] p.pc = "process" ->
                  \* fname, CONFIG[section]['download'], os.path.exists
                  /\ p_download' =
                       IF ~HasSection(section)
                       THEN \* CONFIG[section] raises KeyError, caught nowhere
                            [IdleDownload EXCEPT !.pc = "crashed"]
                       ELSE IF Exists(path)
                       THEN \* "already exists. Skipping."
                            IdleDownload
                       ELSE [p EXCEPT !.pc = "download_file"]
                  /\ UNCHANGED << queue_active_assets, files, complete >>
            [] p.pc = "download_file" ->
                  \* download_file, and the put of the except clause
                  \E outcome \in download_file_outcomes :
                     /\ p_download' = IdleDownload
                     /\ files' = IF outcome = "before_open"
                                 THEN files ELSE files \cup {path}
                     /\ complete' = IF outcome = "ok"
                                    THEN complete \cup {path}
                                    ELSE complete
                     /\ queue_active_assets' =
                          IF outcome = "ok"
                          THEN queue_active_assets
                          ELSE Put(queue_active_assets, p.task)
    /\ UNCHANGED << catalog, network, now, queue_item_ids,
                    queue_inactive_assets, p_load_ids, p_activate,
                    p_is_active, activation_requests >>

\* where main stands: it joins the four processes in the order in which
\* it started them, and a join returns once its process has exited
main_pc ==
    IF ~Exited(p_load_ids) THEN "join_load_ids"
    ELSE IF ~Exited(p_activate) THEN "join_activate"
    ELSE IF ~Exited(p_is_active) THEN "join_is_active"
    ELSE IF ~Exited(p_download) THEN "join_download"
    ELSE "done"

Next == load_ids \/ activate \/ is_active \/ download

Spec == Init /\ [][Next]_vars

(* ------------------- the stages up to the Poll Stage ------------------ *)

\* load_ids, activate and is_active without download.  A stage reads only
\* its input queue and what the network answers, and download writes to
\* neither for these three: what they do is the same with and without it.
NextPoll == load_ids \/ activate \/ is_active

PollSpec == Init /\ [][NextPoll]_vars

(* --------------------------- load_ids alone --------------------------- *)

\* load_ids on catalogs of several regions and pages.  It reads no queue;
\* with no stage taking from it, the Item Queue is the sequence of all
\* that load_ids has put.  load_ids sleeps nowhere: it is scheduled until
\* it exits.
SearchInit ==
    /\ catalog \in SearchCatalogs
    /\ network = "unreliable"
    /\ InitRest

SearchSpec == SearchInit /\ [][load_ids]_vars /\ WF_vars(load_ids)

(* ------------------------ connections that fail ----------------------- *)

\* the pipeline on a network on which a connection can fail at the
\* activation request as well
OutageInit ==
    /\ catalog \in Catalogs
    /\ network = "outage"
    /\ InitRest

OutageSpec == OutageInit /\ [][Next]_vars

(* --------------------- the end-to-end scenario ------------------------ *)

\* one region with one matching item, on a nominal network: both asset
\* kinds are inactive at the check of activate, every later status check
\* reports them active, every download succeeds
ScenarioInit ==
    /\ catalog = [s \in 1..NumSections |->
                    IF s = 1 THEN << << ItemNames[1] >> >> ELSE << << >> >>]
    /\ network = "nominal"
    /\ InitRest

\* each worker is an operating-system process of its own and is scheduled
\* again and again
Fairness ==
    /\ WF_vars(load_ids)
    /\ WF_vars(activate)
    /\ WF_vars(is_active)
    /\ WF_vars(download)

ScenarioSpec == ScenarioInit /\ [][Next]_vars /\ Fairness

(* ----------------------- a search that can fail ----------------------- *)

\* two regions, the first with one feature: the catalog request for the
\* second region can fail when the Item Task of the first is on its way
SearchFailureInit ==
    /\ catalog = << Pages(0, 1, PageSize), Pages(1, 0, PageSize) >>
    /\ network = "unreliable"
    /\ InitRest

SearchFailureSpec == SearchFailureInit /\ [][Next]_vars /\ Fairness

(* ------------------------------ properties ---------------------------- *)

IsReal(t) == t[1] # None

HasReal(q) == \E i \in 1..Len(q) : IsReal(q[i])

InQueue(q, t) == \E i \in 1..Len(q) : q[i] = t

\* the copies of the task of (item_id, asset_type) on queue q
Copies(q, item_id, asset_type) ==
    Cardinality({ i \in 1..Len(q) :
                    q[i][1] = item_id /\ q[i][3] = asset_type })

\* 1 when process p has taken the task of (item_id, asset_type) from its
\* queue and is still in the loop body, else 0
Held(p, item_id, asset_type) ==
    IF p.pc \in {"early", "check", "requeue", "process", "download_file"}
       /\ p.task[1] = item_id /\ p.task[3] = asset_type
    THEN 1 ELSE 0

Markers(q) == Cardinality({ i \in 1..Len(q) : ~IsReal(q[i]) })

\* the destination path of the task download holds
DlPath == Path(p_download.task[2],
               Fname(p_download.task[1], p_download.task[3]))

\* download is about to run lines 65-77 for a real task
DlProcessing ==
    /\ p_download.pc = "process"
    /\ IsReal(p_download.task)

\* C1: every Asset Task is at one place at a time: over the Pending Queue,
\* the Ready Queue and the stages holding a dequeued task there is never
\* more than one copy of the task of an (item, asset kind).
C1_OnePlace ==
    \A n \in 1..MaxItems : \A k \in 1..Len(AssetTypes) :
        Copies(queue_inactive_assets, ItemNames[n], AssetTypes[k])
        + Copies(queue_active_assets, ItemNames[n], AssetTypes[k])
        + Held(p_is_active, ItemNames[n], AssetTypes[k])
        + Held(p_download, ItemNames[n], AssetTypes[k]) <= 1

\* C2: the step that ends a dequeue-and-recheck cycle of is_active leaves
\* the dequeued task on the Pending Queue, whatever the status check
\* reported, and takes nothing off that queue; a check that reported
\* active has put the task on the Ready Queue.
C2_RequeuedAfterCycle ==
    [][ /\ (p_is_active.pc = "requeue" /\ p_is_active' # p_is_active) =>
             /\ InQueue(queue_inactive_assets', p_is_active.task)
             /\ Len(queue_inactive_assets') >= Len(queue_inactive_assets)
             /\ SubSeq(queue_inactive_assets', 1,
                       Len(queue_inactive_assets)) = queue_inactive_assets
        /\ (p_is_active.pc = "check" /\ p_is_active' # p_is_active
            /\ p_is_active'.active = "True") =>
             InQueue(queue_active_assets',
                     << p_is_active.task[1], p_is_active.task[2],
                        p_is_active.task[3],
                        Location(p_is_active.task[1],
                                 p_is_active.task[3]) >>)
      ]_vars

\* a cycle of is_active has ended (the task is on the Pending Queue twice)
\* and no status check ever reported the task active: there is no copy of
\* it on the way to download and no file of it
C2_Witness ==
    /\ p_is_active.pc = "get"
    /\ \E i, j \in 1..Len(queue_inactive_assets) :
          /\ i < j
          /\ IsReal(queue_inactive_assets[i])
          /\ queue_inactive_assets[i] = queue_inactive_assets[j]
          /\ Copies(queue_active_assets, queue_inactive_assets[i][1],
                    queue_inactive_assets[i][3]) = 0
          /\ Held(p_download, queue_inactive_assets[i][1],
                  queue_inactive_assets[i][3]) = 0
          /\ Path(queue_inactive_assets[i][2],
                  Fname(queue_inactive_assets[i][1],
                        queue_inactive_assets[i][3])) \notin files

\* C3: a termination marker is put on the Ready Queue only by is_active,
\* in the step in which it returns (so exactly once), and by no other
\* stage.
C3_OnlyPollPutsMarker ==
    [][ Markers(queue_active_assets') > Markers(queue_active_assets) =>
          (p_is_active.pc = "marker" /\ p_is_active'.pc = "returned")
      ]_vars

\* C4: in the end-to-end scenario, under fair scheduling, the marker
\* passes through the queues and the pipeline terminates: once both files
\* are written is_active, dequeuing the marker, hands it on and returns;
\* and in the end all four stages have returned, the joins of main are
\* complete, and exactly two files have been written.
C4_Terminates ==
 /\ [][ (p_is_active.pc = "marker" /\ Cardinality(complete) = 2
         /\ p_is_active' # p_is_active) =>
          p_is_active'.pc = "returned"
      ]_vars
 /\ <>( /\ main_pc = "done"
        /\ p_load_ids.pc = "returned"
        /\ p_activate.pc = "returned"
        /\ p_is_active.pc = "returned"
        /\ p_download.pc = "returned"
        /\ Cardinality(complete) = 2 )

\* C5: when download has dequeued the marker and the Ready Queue holds
\* nothing else, its next step returns and puts nothing on the queue.
C5_StopsOnMarker ==
    [][ (p_download.pc = "marker" /\ queue_active_assets = << >>
         /\ p_download' # p_download) =>
          (p_download'.pc = "returned"
           /\ queue_active_assets' = queue_active_assets)
      ]_vars

\* C6: a stage that has stopped has no real task on its input queue.
C6_NoRealTaskLeft ==
    /\ Exited(p_activate) => ~HasReal(queue_item_ids)
    /\ Exited(p_is_active) => ~HasReal(queue_inactive_assets)
    /\ Exited(p_download) => ~HasReal(queue_active_assets)

\* C7: when download handles a dequeued task whose destination file
\* exists, it calls download_file not at all, leaves the files as they
\* are, puts nothing on the Ready Queue and goes back to the dequeue.
C7_ExistingFileSkipped ==
    [][ (DlProcessing /\ HasSection(p_download.task[2])
         /\ DlPath \in files /\ p_download' # p_download) =>
          /\ p_download'.pc = "get"
          /\ files' = files
          /\ complete' = complete
          /\ queue_active_assets' = queue_active_assets
      ]_vars

\* download has dequeued a task a second time, after the download of the
\* same task ran to its end
C7_Witness ==
    /\ DlProcessing
    /\ DlPath \in complete

C9_MarkerForwardedWhenDrained ==
    [][ (p_is_active.pc = "marker" /\ p_is_active' # p_is_active) =>
          IF Len(queue_inactive_assets) = 0
          THEN /\ queue_active_assets' = Append(queue_active_assets, Marker)
               /\ queue_inactive_assets' = queue_inactive_assets
               /\ p_is_active'.pc = "returned"
          ELSE /\ queue_inactive_assets' =
                     Append(queue_inactive_assets, Marker)
               /\ queue_active_assets' = queue_active_assets
               /\ p_is_active'.pc = "get"
      ]_vars

\* is_active has dequeued the marker while a real task is still pending
C9_Witness ==
    /\ p_is_active.pc = "marker"
    /\ HasReal(queue_inactive_assets)

\* C10: a task that download put back after a failed attempt is
\* transferred again when download dequeues it later; here for a task
\* whose failed attempt left a part of the file behind.
C10_FailedTaskRetried ==
    [][ (DlProcessing /\ HasSection(p_download.task[2])
         /\ DlPath \in files \ complete /\ p_download' # p_download) =>
          p_download'.pc = "download_file"
      ]_vars

\* C11: the step of activate that follows a status check reporting
\* inactive issues the activation request once and, also when the request
\* fails, puts the task of that kind on the Pending Queue and
\* leaves activate running, to go on with the remaining kinds and items.
C11_FailedActivationStillQueued ==
    [][ (p_activate.pc = "route" /\ p_activate.active = "False"
         /\ p_activate' # p_activate) =>
          /\ Len(activation_requests') = Len(activation_requests) + 1
          /\ queue_inactive_assets' =
                Append(queue_inactive_assets,
                       << p_activate.item_id, p_activate.section,
                          AssetTypes[p_activate.k], now' >>)
          /\ ~Exited(p_activate')
      ]_vars

\* the Item Tasks of the features of one page, in the order of the page
PageTasks(sec, page) ==
    [i \in 1..Len(catalog[sec][page]) |->
        << catalog[sec][page][i], SectionNames[sec] >>]

\* the Item Tasks of the first n pages of a region, page by page
RECURSIVE RegionTasks(_, _)
RegionTasks(sec, n) ==
    IF n = 0 THEN << >> ELSE RegionTasks(sec, n - 1) \o PageTasks(sec, n)

\* the Item Tasks of the first n regions, region by region
RECURSIVE CatalogTasks(_)
CatalogTasks(n) ==
    IF n = 0 THEN << >>
    ELSE CatalogTasks(n - 1) \o RegionTasks(n, Len(catalog[n]))

\* C12: the Item Queue never receives more than one marker; the marker is
\* put by the step in which load_ids returns, behind the Item Tasks of all
\* regions, and is the last element put.  (Under SearchSpec the Item
\* Queue holds all that was ever put on it.)
C12_OneMarkerLast ==
    /\ Markers(queue_item_ids) <= 1
    /\ Markers(queue_item_ids) = 1 =>
          /\ p_load_ids.pc = "returned"
          /\ queue_item_ids[Len(queue_item_ids)] = ItemMarker
    /\ p_load_ids.pc = "returned" =>
          /\ Markers(queue_item_ids) = 1
          /\ Len(queue_item_ids) = Len(CatalogTasks(Len(catalog))) + 1
          /\ \A s \in 1..Len(catalog) :
                \A g \in 1..Len(catalog[s]) :
                   \A i \in 1..Len(catalog[s][g]) :
                      \E j \in 1..(Len(queue_item_ids) - 1) :
                         queue_item_ids[j] =
                            << catalog[s][g][i], SectionNames[s] >>

\* load_ids has returned from a search of two regions with features
C12_Witness ==
    /\ p_load_ids.pc = "returned"
    /\ Len(catalog) >= 2
    /\ \A s \in 1..Len(catalog) : Len(catalog[s][1]) > 0

\* C17: what load_ids has put on the Item Queue is at every moment a
\* beginning of the features of the catalog taken region by region, page
\* by page and in the order of each page, one Item Task each, none twice
\* and none skipped; when load_ids returns it has put them all; and
\* load_ids comes to an end on every catalog.
C17_EveryFeatureOnceInOrder ==
    /\ [](\A i \in 1..Len(queue_item_ids) :
             IsReal(queue_item_ids[i]) =>
                /\ i <= Len(CatalogTasks(Len(catalog)))
                /\ queue_item_ids[i] = CatalogTasks(Len(catalog))[i])
    /\ [](p_load_ids.pc = "returned" =>
             queue_item_ids = CatalogTasks(Len(catalog)) \o << ItemMarker >>)
    /\ <>Exited(p_load_ids)

\* load_ids has returned from a region of more than one page
C17_Witness ==
    /\ p_load_ids.pc = "returned"
    /\ \E s \in 1..Len(catalog) :
          /\ Len(catalog[s]) >= 2
          /\ Len(catalog[s][1]) >= 2

\* C13: activate, taking the marker from the Item Queue, puts one marker
\* on the Pending Queue, nothing on the Ready Queue, and returns; and as
\* long as activate has not returned there is no marker behind it (none on
\* the Pending Queue, with is_active or on the Ready Queue), so every task
\* activate puts on a queue is put before the marker.
C13_ActivateForwardsMarker ==
    /\ [](p_activate.pc # "returned" =>
             /\ Markers(queue_inactive_assets) = 0
             /\ p_is_active.pc # "marker"
             /\ Markers(queue_active_assets) = 0)
    /\ [][ /\ (p_activate.pc = "get" /\ p_activate' # p_activate
                /\ Head(queue_item_ids) = ItemMarker) =>
                  /\ p_activate'.pc = "forward"
                  /\ queue_inactive_assets' = queue_inactive_assets
                  /\ queue_active_assets' = queue_active_assets
           /\ (p_activate.pc = "forward" /\ p_activate' # p_activate) =>
                  /\ queue_inactive_assets' =
                        Append(queue_inactive_assets, Marker)
                  /\ queue_active_assets' = queue_active_assets
                  /\ p_activate'.pc = "returned"
          ]_vars

\* activate has returned, and its marker stands behind a task it created
C13_Witness ==
    /\ p_activate.pc = "returned"
    /\ Len(queue_inactive_assets) = 2
    /\ IsReal(queue_inactive_assets[1])
    /\ queue_inactive_assets[2] = Marker

C15_MarkerNeitherDuplicatedNorStranded ==
    /\ Markers(queue_item_ids) <= 1
    /\ Markers(queue_inactive_assets) <= 1
    /\ Markers(queue_active_assets) <= 1
    /\ Exited(p_activate) => Markers(queue_item_ids) = 0
    /\ Exited(p_is_active) => Markers(queue_inactive_assets) = 0
    /\ Exited(p_download) => Markers(queue_active_assets) = 0

\* the file name the claim gives for an item and an asset kind
ClaimedName(item_id, asset_type) ==
    CASE asset_type = "analytic" -> item_id \o ".tif"
      [] asset_type = "analytic_xml" -> item_id \o ".xml"

\* C16: a download attempt for a task creates or completes no file but
\* the one in the download directory of the task's region that is named
\* <item_id>.tif for the kind "analytic" and <item_id>.xml for the kind
\* "analytic_xml", at the first attempt and at every later one.
C16_FilenameFromItemAndKind ==
    [][ (p_download.pc = "download_file" /\ p_download' # p_download) =>
          LET target == DownloadDir(p_download.task[2]) \o "/"
                          \o ClaimedName(p_download.task[1],
                                         p_download.task[3])
          IN  /\ files' \in {files, files \cup {target}}
              /\ complete' \in {complete, complete \cup {target}}
              /\ (files' = files /\ complete' = complete) =>
                    InQueue(queue_active_assets', p_download.task)
      ]_vars

\* both files of the first feature are written, and a task of the feature
\* waits on the Ready Queue once more
C16_Witness ==
    /\ complete = {"download_s1/i1.tif", "download_s1/i1.xml"}
    /\ p_download.pc = "get"
    /\ \E i \in 1..Len(queue_active_assets) :
          queue_active_assets[i][1] = "i1"

\* C18: the Pending Queue never holds more than one copy of the task of
\* an (item, asset kind).
C18_PendingHoldsNoDuplicate ==
    \A n \in 1..MaxItems : \A k \in 1..Len(AssetTypes) :
        Copies(queue_inactive_assets, ItemNames[n], AssetTypes[k]) <= 1

\* C19: a file exists at a destination path only if a download to that
\* path ran to its end.
C19_FileOnlyIfComplete == files \subseteq complete

\* C20: the step of download that follows the dequeue of a marker does
\* not go on to the file name, the download directory and the download:
\* download returns or goes back to the dequeue, whatever the Ready Queue
\* holds.
C20_MarkerNeverProcessed ==
    [][ (p_download.pc = "marker" /\ p_download' # p_download) =>
          p_download'.pc \in {"returned", "get"}
      ]_vars

====
